---- MODULE Spec2Model ----
(***************************************************************************)
(* Model of the three Xcode-project maintenance scripts of AxiomTestApp:   *)
(*   sync_files_to_xcode.py          (Sync)                                *)
(*   Scripts/add_files_to_project.py (AddFiles)                            *)
(*   fix_file_paths.py               (Fix)                                 *)
(*                                                                         *)
(* The manifest (project.pbxproj) is a sequence of lines.  Only the lines  *)
(* the scripts' regular expressions can see are kept, one token per line:  *)
(*   build    ID /* NAME in Sources */ = {isa = PBXBuildFile;              *)
(*               fileRef = AUX /* NAME */; };                              *)
(*   endBuild /* End PBXBuildFile section */                               *)
(*   ref      ID /* NAME */ = {isa = PBXFileReference; ...                 *)
(*               path = AUX; sourceTree = "<group>"; };                    *)
(*            fmt = "script": byte layout the scripts emit (quoted path)   *)
(*            fmt = "xcode" : layout written by Xcode (unquoted path)      *)
(*   endRef   /* End PBXFileReference section */                           *)
(*   srcOpen  ID /* Sources */ = {isa = PBXSourcesBuildPhase; ... files =  *)
(*            followed by the opening parenthesis of the list              *)
(*   src      ID /* NAME in Sources */,                                    *)
(*   srcClose the closing parenthesis and semicolon of that list           *)
(* White space between lines is not represented.                           *)
(***************************************************************************)
EXTENDS Integers, Sequences, FiniteSets, TLC

VARIABLES
    tree,       \* the source tree: files in the order os.walk yields them
    rootOk,     \* base_path exists and is readable
    manifestOk, \* project.pbxproj can be opened
    disk,       \* the stored manifest
    hist,       \* the scripts run so far, oldest first
    pre,        \* the stored manifest before the last script ran
    missing,    \* missing_files of the last run
    newRefs,    \* new_file_refs of the last run
    newBuilds,  \* new_build_files of the last run
    newSrcs,    \* new_sources of the last run
    wrote,      \* the last script reached its f.write(content)
    outcome,    \* how the last script ended
    report      \* the kinds of message the last script printed

vars == <<tree, rootOk, manifestOk, disk, hist, pre, missing, newRefs,
          newBuilds, newSrcs, wrote, outcome, report>>

----------------------------------------------------------------------------
(* Bounds *)

\* Scripts run in one behaviour.
MaxRuns == 3
\* A reconciliation run is explored only while the manifest with three new
\* lines per missing file stays within this many lines.
MaxLines == 12
\* Identifier values uuid4 is drawn from.
PoolSize == 20
\* Calls of generate_uuid in one run that may return a value seen before.
MaxCollisions == 1

----------------------------------------------------------------------------
(* Program constants *)

SourcesPhaseId == "1A12344E1234567890ABCDEF"

excluded_dirs == {".build", "DerivedData", ".git", "xcuserdata"}

\* Two of the entries of path_fixes: one that maps a file name to itself and
\* one that moves a file under its directory.
path_fixes ==
    [n \in {"ContentView_Old.swift", "UserClient.swift"} |->
        IF n = "UserClient.swift" THEN "Domains/User/UserClient.swift" ELSE n]

\* The i-th of the values str(uuid.uuid4()).replace('-', '').upper()[:24]
\* can take: 24 hexadecimal digits, the 13th of them the version digit 4.
MintId(i) == "0F3A9C2E7B1D4E6A8C5B2F" \o ToString(10 + i)

MintIds == { MintId(i) : i \in 1..PoolSize }

----------------------------------------------------------------------------
(* The source tree *)

File(n, d) == [name |-> n, dir |-> d]

Universe ==
    { File("ContentView.swift", <<>>),
      File("UserClient.swift", <<"Domains", "User">>),
      File("UserClient.swift", <<".build">>) }

RECURSIVE JoinPath(_, _)
JoinPath(parts, n) ==
    IF parts = <<>> THEN n ELSE Head(parts) \o "/" \o JoinPath(Tail(parts), n)

RelPath(f) == JoinPath(f.dir, f.name)

\* os.walk is top-down: the files of the root come first, and the files of
\* one directory are yielded together.
IsWalkOrder(s) ==
    /\ \A i, j \in 1..Len(s) : i # j => s[i] # s[j]
    /\ \A i, j \in 1..Len(s) : (i < j /\ s[j].dir = <<>>) => s[i].dir = <<>>
    /\ \A i, j, k \in 1..Len(s) :
          (i < j /\ j < k /\ s[i].dir = s[k].dir) => s[j].dir = s[i].dir

Trees ==
    { s \in UNION { [1..n -> Universe] : n \in 0..Cardinality(Universe) } :
        IsWalkOrder(s) }

Pruned(f) == \E i \in 1..Len(f.dir) : f.dir[i] \in excluded_dirs

FileInfo(f) == [name |-> f.name, path |-> RelPath(f)]

RECURSIVE MapInfo(_)
MapInfo(s) == IF s = <<>> THEN <<>> ELSE <<FileInfo(Head(s))>> \o MapInfo(Tail(s))

\* os.walk ignores the error of listing a root that does not exist or cannot
\* be read (onerror is None) and yields nothing.
find_all_swift_files ==
    IF rootOk THEN MapInfo(SelectSeq(tree, LAMBDA f : ~Pruned(f))) ELSE <<>>

find_swift_files ==
    IF rootOk THEN MapInfo(tree) ELSE <<>>

----------------------------------------------------------------------------
(* Manifest lines *)

Tok(t, id, n, aux, fmt) == [t |-> t, id |-> id, name |-> n, aux |-> aux, fmt |-> fmt]

EndBuild == Tok("endBuild", "", "", "", "")
EndRef == Tok("endRef", "", "", "", "")
SrcOpen(id) == Tok("srcOpen", id, "", "", "")
SrcClose == Tok("srcClose", "", "", "", "")

NewFileRef(file_uuid, file_info) ==
    Tok("ref", file_uuid, file_info.name, file_info.name, "script")

NewBuildFile(build_uuid, file_uuid, file_info) ==
    Tok("build", build_uuid, file_info.name, file_uuid, "")

NewSource(build_uuid, file_info) ==
    Tok("src", build_uuid, file_info.name, "", "")

Idx(s, t) == { i \in 1..Len(s) : s[i].t = t }

Min(S) == CHOOSE x \in S : \A y \in S : x <= y
Max(S) == CHOOSE x \in S : \A y \in S : x >= y

\* The identifiers a manifest holds: those that name a line, and the fileRef
\* of the build-file lines.
IdsOf(content) ==
    ({ content[i].id : i \in 1..Len(content) }
        \cup { content[i].aux : i \in Idx(content, "build") }) \ {""}

\* uuid4 is random and the scripts compare its result with nothing, so a
\* call returns a value not seen so far, or one of the values of this shape
\* seen so far (in the manifest or from an earlier call).  Identifiers are
\* only compared for equality, so the least unseen value stands for all of
\* the unseen ones.
generate_uuid(seen) ==
    LET unseen == { i \in 1..PoolSize : MintId(i) \notin seen }
    IN (IF unseen = {} THEN {} ELSE {MintId(Min(unseen))}) \cup (seen \cap MintIds)

\* The results of n successive calls, at most c of them returning a value
\* seen before.
RECURSIVE Mint(_, _, _)
Mint(n, seen, c) ==
    IF n = 0 THEN {<<>>}
    ELSE UNION { { <<x>> \o rest :
                     rest \in Mint(n - 1, seen \cup {x}, IF x \in seen THEN c - 1 ELSE c) } :
                 x \in { y \in generate_uuid(seen) : y \in seen => c > 0 } }

----------------------------------------------------------------------------
(* Initial manifests: a hand-maintained project file.  ContentView.swift   *)
(* may be declared, and its file-reference may then occur a second time    *)
(* under another identifier.  All three insertion points are present, or   *)
(* one of them is absent (the Sources phase also by carrying another       *)
(* identifier than the one the scripts look for), or all are absent.       *)

DeclRefId == "1A1234521234567890ABCDEF"
DeclBuildId == "1A1234511234567890ABCDEF"
DupRefId == "1A1234531234567890ABCDEF"
OtherPhaseId == "1A1234601234567890ABCDEF"

Manifest(decl, dup, hb, hr, sp) ==
    (IF decl THEN <<Tok("build", DeclBuildId, "ContentView.swift", DeclRefId, "")>> ELSE <<>>)
    \o (IF hb THEN <<EndBuild>> ELSE <<>>)
    \o (IF decl THEN <<Tok("ref", DeclRefId, "ContentView.swift", "ContentView.swift", "xcode")>> ELSE <<>>)
    \o (IF dup THEN <<Tok("ref", DupRefId, "ContentView.swift", "ContentView.swift", "xcode")>> ELSE <<>>)
    \o (IF hr THEN <<EndRef>> ELSE <<>>)
    \o (IF sp = "none" THEN <<>>
        ELSE <<SrcOpen(IF sp = "std" THEN SourcesPhaseId ELSE OtherPhaseId)>>
             \o (IF decl THEN <<Tok("src", DeclBuildId, "ContentView.swift", "", "")>> ELSE <<>>)
             \o <<SrcClose>>)

Declared == { <<FALSE, FALSE>>, <<TRUE, FALSE>>, <<TRUE, TRUE>> }

Points ==
    { <<TRUE, TRUE, "std">>, <<FALSE, TRUE, "std">>, <<TRUE, FALSE, "std">>,
      <<TRUE, TRUE, "none">>, <<TRUE, TRUE, "other">>, <<FALSE, FALSE, "none">> }

Manifests ==
    { Manifest(d[1], d[2], p[1], p[2], p[3]) : d \in Declared, p \in Points }

----------------------------------------------------------------------------
(* sync_files_to_xcode.py *)

\* extract_existing_files keyed by the path attribute of the file-reference
\* line instead of the file name in its comment.
extract_by_path(content) ==
    [ n \in { content[i].aux : i \in Idx(content, "ref") } |->
        content[Max({ i \in Idx(content, "ref") : content[i].aux = n })].id ]

\* file_ref_pattern matches the file-reference lines in either layout (any
\* attributes free of a closing brace); a later match overwrites an earlier
\* one for the same file name.
extract_existing_files(content) ==
    [ n \in { content[i].name : i \in Idx(content, "ref") } |->
        content[Max({ i \in Idx(content, "ref") : content[i].name = n })].id ]

\* MissingFiles without its membership test.
MissingFilesUnfiltered(swift_files, existing_files) == swift_files

MissingFiles(swift_files, existing_files) ==
    SelectSeq(swift_files, LAMBDA f : f.name \notin DOMAIN existing_files)

\* re.sub replaces every occurrence of the marker by the fragments followed
\* by the marker, and leaves the text alone when there is none.
RECURSIVE SubBeforeEach(_, _, _)
SubBeforeEach(content, t, frags) ==
    IF content = <<>> THEN <<>>
    ELSE (IF Head(content).t = t THEN frags \o <<Head(content)>> ELSE <<Head(content)>>)
         \o SubBeforeEach(Tail(content), t, frags)

InsertAt(content, i, frags) ==
    SubSeq(content, 1, i - 1) \o frags \o SubSeq(content, i, Len(content))

\* sources_pattern: the phase header with the fixed identifier, then text
\* free of a closing parenthesis up to the first one that a semicolon
\* follows.  No line but the list's closing line holds one.  0 when there is no match, else the index of the closing line.
SourcesClose(content) ==
    LET opens == { i \in Idx(content, "srcOpen") :
                     /\ content[i].id = SourcesPhaseId
                     /\ \E j \in Idx(content, "srcClose") : j > i }
    IN IF opens = {} THEN 0
       ELSE Min({ j \in Idx(content, "srcClose") : j > Min(opens) })

PatchSources(content, frags) ==
    IF SourcesClose(content) = 0 THEN content
    ELSE InsertAt(content, SourcesClose(content), frags)

SyncPatch(content, builds, refs, srcs) ==
    PatchSources(
        SubBeforeEach(SubBeforeEach(content, "endBuild", builds), "endRef", refs),
        srcs)

\* The loop over the missing files: call 2i-1 gives file_uuid and call 2i
\* gives build_uuid of the i-th file.
FileRefs(files, ids) ==
    [ i \in 1..Len(files) |-> NewFileRef(ids[2 * i - 1], files[i]) ]

BuildFiles(files, ids) ==
    [ i \in 1..Len(files) |-> NewBuildFile(ids[2 * i], ids[2 * i - 1], files[i]) ]

Sources(files, ids) ==
    [ i \in 1..Len(files) |-> NewSource(ids[2 * i], files[i]) ]

Failed(op) ==
    /\ hist' = Append(hist, op)
    /\ pre' = disk
    /\ outcome' = "error"
    /\ report' = {"error"}
    /\ wrote' = FALSE
    /\ missing' = <<>>
    /\ newRefs' = <<>> /\ newBuilds' = <<>> /\ newSrcs' = <<>>
    /\ UNCHANGED <<tree, rootOk, manifestOk, disk>>

Sync ==
    /\ Len(hist) < MaxRuns
    /\ manifestOk
    /\ LET swift_files == find_all_swift_files
           existing_files == extract_existing_files(disk)
           missing_files == MissingFiles(swift_files, existing_files)
       IN /\ Len(disk) + 3 * Len(missing_files) <= MaxLines
          /\ hist' = Append(hist, "sync")
          /\ pre' = disk
          /\ missing' = missing_files
          /\ IF missing_files = <<>>
             THEN /\ outcome' = "complete"
                  /\ report' = {"scanning", "found", "already includes", "all included", "completed"}
                  /\ wrote' = FALSE
                  /\ newRefs' = <<>> /\ newBuilds' = <<>> /\ newSrcs' = <<>>
                  /\ UNCHANGED disk
             ELSE \E ids \in Mint(2 * Len(missing_files), IdsOf(disk), MaxCollisions) :
                  /\ newRefs' = FileRefs(missing_files, ids)
                  /\ newBuilds' = BuildFiles(missing_files, ids)
                  /\ newSrcs' = Sources(missing_files, ids)
                  /\ disk' = SyncPatch(disk, newBuilds', newRefs', newSrcs')
                  /\ wrote' = TRUE
                  /\ outcome' = "added"
                  /\ report' = {"scanning", "found", "already includes", "adding", "added", "completed"}
    /\ UNCHANGED <<tree, rootOk, manifestOk>>

----------------------------------------------------------------------------
(* Scripts/add_files_to_project.py *)

\* What the comment pattern (any text ending in .swift between the comment
\* delimiters, greedy, within one line) captures on a line: the file name on
\* a file-reference line; on a build-file line the text from the first
\* comment's file name to the last one's; nothing on the other lines.
CommentCapture(line) ==
    IF line.t = "ref" THEN {line.name}
    ELSE IF line.t = "build"
         THEN {line.name \o " in Sources */ = {isa = PBXBuildFile; fileRef = "
                         \o line.aux \o " /* " \o line.name}
         ELSE {}

AddExisting(content) == UNION { CommentCapture(content[i]) : i \in 1..Len(content) }

AddMissing(swift_files, existing_files) ==
    SelectSeq(swift_files, LAMBDA f : f.name \notin existing_files)

\* content.find gives the first occurrence, -1 when there is none.
InsertBeforeFirst(content, t, frags) ==
    IF Idx(content, t) = {} THEN content
    ELSE InsertAt(content, Min(Idx(content, t)), frags)

\* This script's sources_pattern has no closing group: it ends where the
\* text free of a closing parenthesis ends, which is before the closing line
\* of the list, or at the end of the text when no such line follows.  0 when
\* there is no match, else the index the new lines are put before.
AddSourcesEnd(content) ==
    LET opens == { i \in Idx(content, "srcOpen") : content[i].id = SourcesPhaseId }
        closes == { j \in Idx(content, "srcClose") : opens # {} /\ j > Min(opens) }
    IN IF opens = {} THEN 0
       ELSE IF closes = {} THEN Len(content) + 1 ELSE Min(closes)

AddPatchSources(content, frags) ==
    IF AddSourcesEnd(content) = 0 THEN content
    ELSE InsertAt(content, AddSourcesEnd(content), frags)

AddPatch(content, builds, refs, srcs) ==
    AddPatchSources(
        InsertBeforeFirst(InsertBeforeFirst(content, "endBuild", builds), "endRef", refs),
        srcs)

AddFiles ==
    /\ Len(hist) < MaxRuns
    /\ manifestOk
    /\ LET swift_files == find_swift_files
           existing_files == AddExisting(disk)
           missing_files == AddMissing(swift_files, existing_files)
       IN /\ Len(disk) + 3 * Len(missing_files) <= MaxLines
          /\ hist' = Append(hist, "add")
          /\ pre' = disk
          /\ missing' = missing_files
          /\ IF missing_files = <<>>
             THEN /\ outcome' = "complete"
                  /\ report' = {"found", "no new files"}
                  /\ wrote' = FALSE
                  /\ newRefs' = <<>> /\ newBuilds' = <<>> /\ newSrcs' = <<>>
                  /\ UNCHANGED disk
             ELSE \E ids \in Mint(2 * Len(missing_files), IdsOf(disk), MaxCollisions) :
                  /\ newRefs' = FileRefs(missing_files, ids)
                  /\ newBuilds' = BuildFiles(missing_files, ids)
                  /\ newSrcs' = Sources(missing_files, ids)
                  /\ disk' = AddPatch(disk, newBuilds', newRefs', newSrcs')
                  /\ wrote' = TRUE
                  /\ outcome' = "added"
                  /\ report' = {"found", "added"}
    /\ UNCHANGED <<tree, rootOk, manifestOk>>

----------------------------------------------------------------------------
(* fix_file_paths.py *)

\* The pattern of one path_fixes entry matches a file-reference line of that
\* file name in the scripts' own layout whose path is the bare file name.
FixMatches(line) ==
    /\ line.t = "ref"
    /\ line.fmt = "script"
    /\ line.name \in DOMAIN path_fixes
    /\ line.aux = line.name

FixLine(line) ==
    IF FixMatches(line) THEN [line EXCEPT !.aux = path_fixes[line.name]] ELSE line

FixContent(content) == [ i \in 1..Len(content) |-> FixLine(content[i]) ]

fix_project_file ==
    /\ Len(hist) < MaxRuns
    /\ manifestOk
    /\ hist' = Append(hist, "fix")
    /\ pre' = disk
    /\ disk' = FixContent(disk)
    /\ wrote' = TRUE
    /\ outcome' = "fixed"
    /\ report' = {"fixed"}
    /\ missing' = <<>>
    /\ newRefs' = <<>> /\ newBuilds' = <<>> /\ newSrcs' = <<>>
    /\ UNCHANGED <<tree, rootOk, manifestOk>>

\* open() raises when the project file cannot be opened: main() of the sync
\* script prints the error, the other two scripts end with the exception.
OpenFails ==
    /\ Len(hist) < MaxRuns
    /\ ~manifestOk
    /\ \E op \in {"sync", "add", "fix"} : Failed(op)

----------------------------------------------------------------------------

Init ==
    /\ tree \in Trees
    /\ rootOk \in BOOLEAN
    /\ (~rootOk => tree = <<>>)
    /\ manifestOk \in BOOLEAN
    /\ disk \in Manifests
    /\ (~manifestOk => disk = <<>>)
    /\ hist = <<>>
    /\ pre = disk
    /\ missing = <<>>
    /\ newRefs = <<>> /\ newBuilds = <<>> /\ newSrcs = <<>>
    /\ wrote = FALSE
    /\ outcome = "none"
    /\ report = {}

Next == Sync \/ AddFiles \/ fix_project_file \/ OpenFails

Spec == Init /\ [][Next]_vars
----------------------------------------------------------------------------
(* Vocabulary of the properties *)

Runs == {"sync", "add"}

LastOp == IF hist = <<>> THEN "none" ELSE hist[Len(hist)]

\* The last script was a reconciliation run that got past reading the manifest.
Ran == LastOp \in Runs /\ outcome # "error"

\* What the enumerator of the last run yielded.
Enumerated == IF LastOp = "sync" THEN find_all_swift_files ELSE find_swift_files

Range(s) == { s[i] : i \in 1..Len(s) }

\* The three insertion points can be located.
AllPoints(content) ==
    /\ Idx(content, "endBuild") # {}
    /\ Idx(content, "endRef") # {}
    /\ \E i \in Idx(content, "srcOpen") :
          content[i].id = SourcesPhaseId /\ \E j \in Idx(content, "srcClose") : j > i

\* The identifiers the last run minted, in the order of the calls.
Minted ==
    [ k \in 1..(2 * Len(newBuilds)) |->
        IF k % 2 = 1 THEN newBuilds[(k + 1) \div 2].aux ELSE newBuilds[k \div 2].id ]

\* The lines of a manifest that declare file name n, in order.
LinesOf(content, n) ==
    SelectSeq(content, LAMBDA l : l.t \in {"ref", "build", "src"} /\ l.name = n)

DeclaredNames(content) == { content[i].name : i \in Idx(content, "ref") }

\* content with ins[i] put immediately before line i, for every i.
RECURSIVE Splice(_, _, _)
Splice(content, ins, i) ==
    IF i > Len(content) THEN <<>>
    ELSE ins[i] \o <<content[i]>> \o Splice(content, ins, i + 1)

----------------------------------------------------------------------------
(* C1.  Completeness: after a run, every enumerated source file has exactly *)
(* one file-reference line, exactly one build-file line whose fileRef is    *)
(* that line's identifier, and exactly one Sources-list line whose          *)
(* identifier is that build-file line's.                                    *)
Completeness ==
    Ran =>
      \A f \in Range(Enumerated) :
        LET R == { i \in Idx(disk, "ref") : disk[i].name = f.name }
        IN /\ Cardinality(R) = 1
           /\ LET r == CHOOSE i \in R : TRUE
                  B == { i \in Idx(disk, "build") : disk[i].aux = disk[r].id }
              IN /\ Cardinality(B) = 1
                 /\ LET b == CHOOSE i \in B : TRUE
                    IN Cardinality({ i \in Idx(disk, "src") : disk[i].id = disk[b].id }) = 1

(* C2.  Idempotence: when the same reconciliation script runs twice in      *)
(* succession, the second run finds no missing file, does not write, and    *)
(* leaves the stored manifest as it was.                                    *)
Idempotence ==
    (Len(hist) >= 2 /\ Ran /\ hist[Len(hist) - 1] = LastOp) =>
        (missing = <<>> /\ ~wrote /\ disk = pre)

(* C3.  Uniqueness: the identifiers minted in a run are pairwise distinct   *)
(* and none of them occurs in the manifest the run started from.            *)
Uniqueness ==
    Ran =>
        /\ \A i, j \in 1..Len(Minted) : i # j => Minted[i] # Minted[j]
        /\ Range(Minted) \cap IdsOf(pre) = {}

(* C4.  All-or-nothing write: a run with a missing file that cannot locate  *)
(* one of the three insertion points leaves the stored manifest as it was.  *)
AllOrNothing ==
    (Ran /\ missing # <<>> /\ ~AllPoints(pre)) => disk = pre

NonInterference ==
    (Ran /\ missing # <<>>) =>
        \E b \in Idx(pre, "endBuild"), r \in Idx(pre, "endRef"), c \in Idx(pre, "srcClose") :
            /\ \E o \in Idx(pre, "srcOpen") :
                  /\ o < c
                  /\ \A k \in Idx(pre, "srcClose") : ~(o < k /\ k < c)
            /\ disk = Splice(pre, [ i \in 1..Len(pre) |->
                                     IF i = b THEN newBuilds
                                     ELSE IF i = r THEN newRefs
                                     ELSE IF i = c THEN newSrcs ELSE <<>> ], 1)

(* C7.  Unreadable root is fatal: a run whose root does not exist or cannot *)
(* be read ends in an error, never as "already complete", and writes        *)
(* nothing.                                                                 *)
UnreadableRootFatal ==
    (LastOp \in Runs /\ ~rootOk) => (outcome = "error" /\ ~wrote)

(* C8.  Fresh path: the file-reference line built for a missing file gives  *)
(* as its path the relative path under which the file was enumerated.       *)
FreshPath ==
    Ran => \A i \in 1..Len(newRefs) : newRefs[i].aux = missing[i].path

(* C9.  Divergent identifiers are surfaced: a sync run on a manifest that   *)
(* holds one file name in two file-reference lines with different           *)
(* identifiers reports an identifier-collision warning.                     *)
DivergenceSurfaced ==
    (LastOp = "sync" /\ outcome # "error" /\
        \E i, j \in Idx(pre, "ref") : pre[i].name = pre[j].name /\ pre[i].id # pre[j].id)
    => "identifier collision warning" \in report

(* C10.  Path fixing does not undo reconciliation: with all three           *)
(* insertion points present, a run that follows a run of the same script    *)
(* and a path fix finds no missing file and changes nothing; a path fix     *)
(* changes nothing but the path of file-reference lines; a path fix that    *)
(* follows a path fix changes nothing.                                      *)
FixKeepsSync ==
    LET n == Len(hist) IN
    /\ (n >= 3 /\ Ran /\ hist[n - 1] = "fix" /\ hist[n - 2] = LastOp /\ AllPoints(pre))
          => (missing = <<>> /\ ~wrote /\ disk = pre)
    /\ (LastOp = "fix" /\ outcome = "fixed")
          => /\ Len(disk) = Len(pre)
             /\ \A i \in 1..Len(pre) :
                   /\ [disk[i] EXCEPT !.aux = pre[i].aux] = pre[i]
                   /\ disk[i] # pre[i] => pre[i].t = "ref"
    /\ (n >= 2 /\ LastOp = "fix" /\ outcome = "fixed" /\ hist[n - 1] = "fix")
          => disk = pre

\* A run added UserClient.swift, the path fix moved its path under
\* Domains/User, and the next run of the same script found nothing missing.
FixKeepsSyncWitness ==
    LET n == Len(hist) IN
    /\ n >= 3 /\ Ran /\ LastOp = "sync" /\ hist[n - 1] = "fix" /\ hist[n - 2] = "sync"
    /\ AllPoints(pre)
    /\ missing = <<>>
    /\ \E f \in Range(Enumerated) : \E i \in Idx(disk, "ref") :
          /\ disk[i].name = f.name
          /\ disk[i].fmt = "script"
          /\ disk[i].aux # disk[i].name
          /\ disk[i].aux = f.path
====
